---- MODULE Spec2Model ----
(***************************************************************************)
(* The minimal WebSocket client of tempest/common/compute.py:              *)
(* create_websocket (address loop and connect), _WebSocket.__init__ and    *)
(* _upgrade (HTTP Upgrade handshake), _recv, receive_frame, send_frame and *)
(* close.  The peer is a byte script that the socket delivers in chunks of *)
(* any size the caller's recv allows, followed by the peer's close.        *)
(* connect() may fail; the other socket calls (sendall, recv, shutdown,    *)
(* close) are taken to complete without an OS-level error.  One thread     *)
(* calls the connection's methods, one call at a time; in SpecConcurrent a *)
(* second thread calls receive_frame on the same connection.               *)
(*                                                                         *)
(* The same file holds the server utilities create_test_server (with       *)
(* _setup_validation_fip and wait_for_ssh_or_ping) and shelve_server; they *)
(* are modelled by the calls they make on the compute API, each of which   *)
(* returns or raises.                                                      *)
(***************************************************************************)
EXTENDS Integers, Sequences, FiniteSets, TLC

VARIABLES
    url,            \* the parsed URL: [scheme, hostname, port, query]
    naddrs,         \* number of entries getaddrinfo returned
    attempts,       \* outcome of each connect tried so far, in order
    sockets,        \* state of every client socket created, in creation order
    _socket,        \* self._socket: index into sockets, 0 for None / no object
    pc,             \* position of the single calling thread
    cached_stream,  \* self.cached_stream
    response,       \* self.response
    script,         \* every byte the peer sends before it closes
    rd,             \* number of script bytes socket.recv has returned so far
    need,           \* payload length decoded by receive_frame, pending its read
    pos0,           \* stream offset consumed when the running receive_frame began
    sent_upgrade,   \* number of upgrade requests handed to sendall so far
    ops,            \* socket operations performed by the last step, in order
    ret,            \* outcome of the last call that finished
    other,          \* a second thread calling receive_frame: [pc, need, hdr, ret]
    args,           \* create_test_server: its arguments and the CONF options it reads
    cts,            \* create_test_server: position, locals and the API calls made
    shv             \* shelve_server: arguments, position, calls and the server's status

vars == <<url, naddrs, attempts, sockets, _socket, pc, cached_stream, response,
          script, rd, need, pos0, sent_upgrade, ops, ret, other, args, cts, shv>>

(* The variables of the server utilities, which the WebSocket client never *)
(* touches, and those of the WebSocket client                              *)
compute_vars == <<args, cts, shv>>
websocket_vars == <<url, naddrs, attempts, sockets, _socket, pc, cached_stream, response,
                    script, rd, need, pos0, sent_upgrade, ops, ret, other>>

----------------------------------------------------------------------------
(* Bounds of the model *)

MaxAddrs == 2
MaxStream == 5
MaxData == 5
MaxFields == 2
MaxResponse == 6
MaxLenStream == 4

(* Program constants *)

CR == 13
LF == 10
HandshakeChunk == 4096
HeaderSize == 2
LengthMask == 127
BinaryFinal == 130
MaskBit == 128
ShutWr == 1
HttpPort == 80
HttpsPort == 443

----------------------------------------------------------------------------
(* Byte arithmetic *)

Min(a, b) == IF a < b THEN a ELSE b

RECURSIVE BitAnd(_, _)
BitAnd(a, b) ==
    IF a = 0 \/ b = 0 THEN 0
    ELSE ((a % 2) * (b % 2)) + (2 * BitAnd(a \div 2, b \div 2))

RECURSIVE BitOr(_, _)
BitOr(a, b) ==
    IF a = 0 THEN b
    ELSE IF b = 0 THEN a
    ELSE (IF (a % 2) = 1 \/ (b % 2) = 1 THEN 1 ELSE 0) + (2 * BitOr(a \div 2, b \div 2))

RECURSIVE BitXor(_, _)
BitXor(a, b) ==
    IF a = 0 THEN b
    ELSE IF b = 0 THEN a
    ELSE (((a % 2) + (b % 2)) % 2) + (2 * BitXor(a \div 2, b \div 2))

(* Python slices s[:n] and s[n:] for n >= 0 *)
Take(s, n) == SubSeq(s, 1, Min(n, Len(s)))
Drop(s, n) == SubSeq(s, Min(n, Len(s)) + 1, Len(s))

SeqsUpTo(S, n) == UNION {[1..k -> S] : k \in 0..n}

----------------------------------------------------------------------------
(* Results and socket operations *)

(* How a call ended: op is the call, arg its bytes argument, kind is        *)
(* "value" (returned val), "None" (returned None) or "raise" (raised exc). *)
NoRet == [op |-> "none", arg |-> <<>>, kind |-> "none", val |-> <<>>, exc |-> ""]
Returned(o, v) == [op |-> o, arg |-> <<>>, kind |-> "value", val |-> v, exc |-> ""]
ReturnedNone(o) == [op |-> o, arg |-> <<>>, kind |-> "None", val |-> <<>>, exc |-> ""]
Raised(o, e) == [op |-> o, arg |-> <<>>, kind |-> "raise", val |-> <<>>, exc |-> e]
WithArg(r, a) == [r EXCEPT !.arg = a]

(* The second thread when it is in no call *)
Idle == [pc |-> "idle", need |-> 0, hdr |-> 0, ret |-> NoRet]

(* One call on socket number sock: n is its integer argument, data the     *)
(* bytes it was given (sendall) or returned (recv).                        *)

SockOp(c, s, n, d) == [call |-> c, sock |-> s, n |-> n, data |-> d]

----------------------------------------------------------------------------
(* The environment: URL schemes, connect outcomes, the peer's bytes *)

Schemes == {"http", "https"}

(* What connect() on a freshly created client socket can do.  On a socket  *)
(* wrapped by SSLContext.wrap_socket, connect() also runs the TLS          *)
(* handshake, which can fail after the TCP connect succeeded.              *)
ConnectOutcomes(scheme) ==
    IF scheme = "https" THEN {"ok", "refused", "tls_fail"} ELSE {"ok", "refused"}

(* The exception each failing outcome raises *)
ConnectError(outcome) ==
    IF outcome = "tls_fail" THEN "ssl.SSLError" ELSE "ConnectionRefusedError"

Delim == <<CR, LF, CR, LF>>

(* Handshake responses the peer may open with: a well-formed header block  *)
(* (a status byte, then the delimiter), a bare delimiter, a header block   *)
(* cut off before the delimiter, and nothing at all.                       *)
Handshakes == {<<72>> \o Delim, Delim, <<72, CR, LF, CR>>, <<>>}

(* Bytes the peer sends after its handshake response.  Every sequence over *)
(* them parses as frames: any byte is a first header byte, and as a second *)
(* header byte it is a payload length.                                     *)
StreamBytes == {0, 1, 2}

Scripts == {h \o f : h \in Handshakes, f \in SeqsUpTo(StreamBytes, MaxStream)}

(* A few streams for the runs that are about connecting, sending and       *)
(* closing: none, one frame of one byte, an empty frame and then a frame   *)
(* of two bytes.                                                           *)
SmallStreams == {<<>>, <<BinaryFinal, 1, 5>>, <<BinaryFinal, 0, BinaryFinal, 2, 5, 6>>}
SmallScripts == {h \o f : h \in Handshakes, f \in SmallStreams}

(* For the runs that are about the handshake: every sequence of up to      *)
(* MaxResponse bytes over CR, LF and a letter, after which the peer        *)
(* closes.  They hold the delimiter early, late, twice, cut off, or not at *)
(* all.                                                                    *)
HandshakeBytes == {CR, LF, 72}
HandshakeScripts == SeqsUpTo(HandshakeBytes, MaxResponse)

(* For the runs that are about the length field: as a second header byte   *)
(* these are length 1 without the mask bit (1), lengths 0 and 1 with it    *)
(* (128, 129) and the extended-length markers 126 and 127; as a first      *)
(* header byte they differ in FIN and opcode.                              *)
LengthBytes == {1, 126, 127, 128, 129}
LengthScripts == {Delim \o f : f \in SeqsUpTo(LengthBytes, MaxLenStream)}

(* Payloads the caller passes to send_frame *)
DataBytes == {85, 255}
Payloads == SeqsUpTo(DataBytes, MaxData)
SmallPayloads == {<<>>, <<85>>}

(* urlparse(url) as create_websocket and _upgrade use it: the scheme, the   *)
(* lower-cased host name, the port as <<>> (url.port is None) or <<n>>,    *)
(* and the query as its '&'-separated fields in order, each 'key=val' with *)
(* val a sequence of pieces of text as they stand in the URL.              *)
Url(scheme, hostname, port, query) ==
    [scheme |-> scheme, hostname |-> hostname, port |-> port, query |-> query]
Field(key, val) == [key |-> key, val |-> val]

Urls == {Url(s, "x.com", <<>>, <<>>) : s \in Schemes}
PlainUrls == {Url("http", "x.com", <<>>, <<>>)}

(* URLs for the runs that are about the upgrade request and the port: a    *)
(* scheme that is neither http nor https, no port, the default ports and   *)
(* another one, and queries of up to MaxFields fields with a blank value,  *)
(* a percent-encoded value, a plain value and a parameter other than path. *)
AllSchemes == Schemes \cup {"wss"}
Ports == {<<>>, <<HttpPort>>, <<HttpsPort>>, <<6080>>}
Fields == {Field("path", <<>>), Field("path", <<"%3F", "token", "%3D", "a+b">>),
           Field("path", <<"vnc">>), Field("token", <<"abc">>)}
Queries == SeqsUpTo(Fields, MaxFields)
AllUrls == {Url(s, "x.com", p, q) : s \in AllSchemes, p \in Ports, q \in Queries}

----------------------------------------------------------------------------
(* socket.recv(n) on the connected socket: blocks until the peer has sent  *)
(* something or closed, then returns between 1 and n of the bytes not yet  *)
(* read, or b'' once the peer has closed and nothing is left.              *)
SockRecvSizes(n) ==
    IF rd = Len(script) THEN {0} ELSE 1..Min(n, Len(script) - rd)

SockRecvData(k) == SubSeq(script, rd + 1, rd + k)

(* bytes.find(b'\r\n\r\n'): lowest 0-based index of the delimiter, else -1 *)
Find(s) ==
    LET hits == {i \in 0..(Len(s) - Len(Delim)) : SubSeq(s, i + 1, i + Len(Delim)) = Delim}
    IN  IF hits = {} THEN -1 ELSE CHOOSE i \in hits : \A j \in hits : i <= j

(* Offset into the post-handshake stream of the next byte _recv will hand  *)
(* out: what the socket delivered, less the retained response and less     *)
(* what is still waiting in the read-ahead buffer.                         *)
Consumed == rd - Len(response) - Len(cached_stream)

----------------------------------------------------------------------------
(* urlparse: url.query and parse_qs *)

(* The text of a sequence of pieces *)
RECURSIVE Text(_)
Text(pieces) == IF pieces = <<>> THEN "" ELSE Head(pieces) \o Text(Tail(pieces))

(* unquote(piece.replace('+', ' ')) on the pieces the model's URLs hold *)
Unquote(piece) ==
    CASE piece = "%3F" -> "?"
      [] piece = "%3D" -> "="
      [] piece = "a+b" -> "a b"
      [] OTHER -> piece

RECURSIVE Decoded(_)
Decoded(pieces) ==
    IF pieces = <<>> THEN "" ELSE Unquote(Head(pieces)) \o Decoded(Tail(pieces))

(* url.query: the fields as they stand in the URL, joined by '&' *)
RECURSIVE RawQuery(_)
RawQuery(query) ==
    IF query = <<>> THEN ""
    ELSE Head(query).key \o "=" \o Text(Head(query).val)
         \o (IF Tail(query) = <<>> THEN "" ELSE "&" \o RawQuery(Tail(query)))

(* parse_qs(url.query)[name], or <<>> when parse_qs has no such key: the   *)
(* decoded values of the fields called name in order, fields with a blank  *)
(* value left out (keep_blank_values is False).                            *)
RECURSIVE ParseQs(_, _)
ParseQs(query, name) ==
    IF query = <<>> THEN <<>>
    ELSE (IF Head(query).key = name /\ Head(query).val # <<>>
          THEN <<Decoded(Head(query).val)>> ELSE <<>>)
         \o ParseQs(Tail(query), name)

----------------------------------------------------------------------------
(* create_websocket *)

(* port = url.port or (443 if url.scheme == 'https' else 80) *)
Port_http_only(u) ==
    IF u.port # <<>> /\ u.port[1] # 0 THEN u.port[1] ELSE HttpPort

Port(u) ==
    IF u.port # <<>> /\ u.port[1] # 0 THEN u.port[1]
    ELSE IF u.scheme = "https" THEN HttpsPort ELSE HttpPort

(***************************************************************************)
(* create_test_server.  A call is described by the arguments and the CONF  *)
(* options the code reads: validation_resources is TRUE for a dictionary   *)
(* of resources and FALSE for None, kwargs_validation says that the caller *)
(* passed security_groups and key_name itself, count is                    *)
(* max(min_count, max_count), at least 1.  Servers are numbered 1..count.  *)
(* Every request to the compute API and every waiter returns or raises.    *)
(***************************************************************************)
MaxServers == 2

WaitUntil == {"None", "ACTIVE", "PINGABLE", "SSHABLE"}

ConnectMethods == {"floating", "fixed"}

Args(w, v, r, rv, cm, kw, n) ==
    [wait_until |-> w, validatable |-> v, validation_resources |-> r,
     run_validation |-> rv, connect_method |-> cm, kwargs_validation |-> kw,
     count |-> n]

AllArgs ==
    {Args(w, v, r, rv, cm, kw, n) :
        w \in WaitUntil, v \in BOOLEAN, r \in BOOLEAN, rv \in BOOLEAN,
        cm \in ConnectMethods, kw \in BOOLEAN, n \in 1..MaxServers}

(* The signature's defaults, for a run in which the function is not called *)
DefaultArgs == Args("None", FALSE, FALSE, FALSE, "floating", FALSE, 1)

(* One call made by the function: on which server (0 for none), and        *)
(* whether it returned (TRUE) or raised (FALSE)                            *)
Call(name, server, ok) == [call |-> name, server |-> server, ok |-> ok]

(* The locals of create_test_server: created is the number of servers the  *)
(* create request made, created_servers and servers the lengths of the     *)
(* two lists, i the index of the running loop, exc the exception in flight *)
(* or raised, returned the number of servers in the returned list.         *)
Called(position, w) ==
    [pc |-> position, wait_until |-> w, wait_until_extra |-> "None",
     created |-> 0, created_servers |-> 0, servers |-> 0, i |-> 0,
     exc |-> "", returned |-> 0, log |-> <<>>]

NotCalled == Called("idle", "None")

multiple_create_request == args.count > 1

(* if CONF.validation.run_validation and validatable *)
RunsValidation == args.run_validation /\ args.validatable

(* except Exception: the cleanup starts with the first created server *)
Failed(c, e) == [c EXCEPT !.pc = "delete", !.exc = e, !.i = 1]

(* Validate had the loop waited for SSH or ping only behind a floating IP *)
Validate_fixed_returns(c, j) ==
    IF j > c.servers \/ ~RunsValidation
        THEN [c EXCEPT !.pc = "returned", !.returned = c.servers]
    ELSE IF args.connect_method = "floating"
        THEN [c EXCEPT !.pc = "fip", !.i = j]
    ELSE [c EXCEPT !.pc = "returned", !.returned = c.servers]

(* for server in servers, from server j on: what the loop body does next.  *)
(* Without validation every iteration is empty and the function returns    *)
(* body, servers.                                                          *)
Validate(c, j) ==
    IF j > c.servers \/ ~RunsValidation
        THEN [c EXCEPT !.pc = "returned", !.returned = c.servers]
    ELSE IF args.connect_method = "floating"
        THEN [c EXCEPT !.pc = "fip", !.i = j]
    ELSE IF c.wait_until_extra # "None"
        THEN [c EXCEPT !.pc = "ssh_or_ping", !.i = j]
    ELSE [c EXCEPT !.pc = "returned", !.returned = c.servers]

(* if wait_until: ... else return body, created_servers *)
CheckWaitUntil(c) ==
    IF c.wait_until = "None"
        THEN [c EXCEPT !.pc = "returned", !.returned = c.created_servers]
    ELSE IF c.wait_until \in {"PINGABLE", "SSHABLE"}
        THEN IF ~args.validatable /\ ~args.validation_resources
                THEN [c EXCEPT !.pc = "raised", !.exc = "RuntimeError"]
                ELSE [c EXCEPT !.wait_until_extra = c.wait_until,
                               !.wait_until = "ACTIVE",
                               !.pc = "wait_status", !.i = 1]
    ELSE [c EXCEPT !.pc = "wait_status", !.i = 1]

(* The preparation and servers_client.create_server.  With validation and  *)
(* no validation_resources the subscript validation_resources[...] raises  *)
(* TypeError, which except KeyError does not catch, before any request.    *)
create_server ==
    /\ cts.pc = "start"
    /\ IF RunsValidation /\ ~args.validation_resources /\ ~args.kwargs_validation
        THEN cts' = [cts EXCEPT !.pc = "raised", !.exc = "TypeError"]
        ELSE \E ok \in BOOLEAN :
            LET w == IF RunsValidation /\ args.connect_method = "floating"
                        /\ cts.wait_until = "None"
                     THEN "ACTIVE" ELSE cts.wait_until
                c == [cts EXCEPT !.wait_until = w,
                                 !.log = Append(@, Call("create_server", 0, ok))]
            IN  cts' = IF ~ok THEN [c EXCEPT !.pc = "raised", !.exc = "create_server"]
                       ELSE IF multiple_create_request
                            THEN [c EXCEPT !.created = args.count, !.pc = "list"]
                       ELSE CheckWaitUntil([c EXCEPT !.created = 1,
                                                     !.created_servers = 1])
    /\ UNCHANGED <<args, shv, websocket_vars>>

(* servers_client.list_servers of a multiple create request *)
list_servers ==
    /\ cts.pc = "list"
    /\ \E ok \in BOOLEAN :
        LET c == [cts EXCEPT !.log = Append(@, Call("list_servers", 0, ok))]
        IN  cts' = IF ok THEN CheckWaitUntil([c EXCEPT !.created_servers = c.created])
                   ELSE [c EXCEPT !.pc = "raised", !.exc = "list_servers"]
    /\ UNCHANGED <<args, shv, websocket_vars>>

(* for server in created_servers: waiters.wait_for_server_status *)
wait_for_server_status ==
    /\ cts.pc = "wait_status"
    /\ \E ok \in BOOLEAN :
        LET c == [cts EXCEPT
                    !.log = Append(@, Call("wait_for_server_status", cts.i, ok))]
        IN  cts' = IF ~ok THEN Failed(c, "wait_for_server_status")
                   ELSE IF cts.i < cts.created_servers
                        THEN [c EXCEPT !.servers = cts.i, !.i = cts.i + 1]
                   ELSE Validate([c EXCEPT !.servers = cts.i], 1)
    /\ UNCHANGED <<args, shv, websocket_vars>>

(* _setup_validation_fip as called from the loop: without                  *)
(* validation_resources the subscript raises TypeError before the          *)
(* association, otherwise the association request returns or raises.       *)
_setup_validation_fip ==
    /\ cts.pc = "fip"
    /\ \E ok \in (IF args.validation_resources THEN BOOLEAN ELSE {FALSE}) :
        LET c == [cts EXCEPT
                    !.log = Append(@, Call("_setup_validation_fip", cts.i, ok))]
        IN  cts' = IF ~ok
                        THEN Failed(c, IF args.validation_resources
                                       THEN "_setup_validation_fip" ELSE "TypeError")
                   ELSE IF c.wait_until_extra # "None"
                        THEN [c EXCEPT !.pc = "ssh_or_ping"]
                   ELSE Validate(c, cts.i + 1)
    /\ UNCHANGED <<args, shv, websocket_vars>>

(* if wait_until == 'PINGABLE': wait_for_ping; if 'SSHABLE': wait_for_ssh *)
WaiterOf(w) == IF w = "SSHABLE" THEN "wait_for_ssh" ELSE "wait_for_ping"

(* wait_for_ssh_or_ping had it set the floating IP whatever it is told *)
wait_for_ssh_or_ping_always_sets(set_floatingip) ==
    /\ cts.pc = "ssh_or_ping"
    /\ \E ok \in BOOLEAN :
        LET c == [cts EXCEPT
                    !.log = @ \o <<Call("_setup_validation_fip", cts.i, TRUE),
                                   Call(WaiterOf(cts.wait_until_extra), cts.i, ok)>>]
        IN  cts' = IF ok THEN Validate(c, cts.i + 1)
                   ELSE Failed(c, WaiterOf(cts.wait_until_extra))
    /\ UNCHANGED <<args, shv, websocket_vars>>

(* wait_for_ssh_or_ping: the floating IP is set only on request; then      *)
(* get_server_ip, which raises InvalidParam for the floating method        *)
(* without validation_resources; then the ping wait, or the SSH wait,      *)
(* whose key is read from validation_resources (TypeError without them);   *)
(* a call that raises before its wait is logged under its own name.        *)
wait_for_ssh_or_ping(set_floatingip) ==
    /\ cts.pc = "ssh_or_ping"
    /\ LET fip == set_floatingip /\ args.connect_method = "floating"
           c0 == IF fip /\ args.validation_resources
                 THEN [cts EXCEPT
                        !.log = Append(@, Call("_setup_validation_fip", cts.i, TRUE))]
                 ELSE cts
       IN  IF ~args.validation_resources
              /\ (fip \/ args.connect_method = "floating"
                      \/ cts.wait_until_extra = "SSHABLE")
           THEN cts' = Failed([c0 EXCEPT !.log = Append(@,
                                    Call("wait_for_ssh_or_ping", cts.i, FALSE))],
                              IF ~fip /\ args.connect_method = "floating"
                              THEN "InvalidParam" ELSE "TypeError")
           ELSE \E ok \in BOOLEAN :
               LET c == [c0 EXCEPT !.log = Append(@,
                            Call(WaiterOf(cts.wait_until_extra), cts.i, ok))]
               IN  cts' = IF ok THEN Validate(c, cts.i + 1)
                          ELSE Failed(c, WaiterOf(cts.wait_until_extra))
    /\ UNCHANGED <<args, shv, websocket_vars>>

(* delete_server had a failing delete ended the cleanup with its exception *)
delete_server_stops ==
    /\ cts.pc = "delete"
    /\ \E ok \in BOOLEAN :
        LET c == [cts EXCEPT !.log = Append(@, Call("delete_server", cts.i, ok))]
        IN  cts' = IF ~ok THEN [c EXCEPT !.pc = "raised", !.exc = "delete_server"]
                   ELSE IF cts.i < cts.created_servers THEN [c EXCEPT !.i = cts.i + 1]
                   ELSE [c EXCEPT !.pc = "terminate", !.i = 1]
    /\ UNCHANGED <<args, shv, websocket_vars>>

(* The first cleanup loop: servers_client.delete_server for every created  *)
(* server; an exception is logged and the loop goes on.                    *)
delete_server ==
    /\ cts.pc = "delete"
    /\ \E ok \in BOOLEAN :
        LET c == [cts EXCEPT !.log = Append(@, Call("delete_server", cts.i, ok))]
        IN  cts' = IF cts.i < cts.created_servers THEN [c EXCEPT !.i = cts.i + 1]
                   ELSE [c EXCEPT !.pc = "terminate", !.i = 1]
    /\ UNCHANGED <<args, shv, websocket_vars>>

(* The second cleanup loop: waiters.wait_for_server_termination for every  *)
(* created server; an exception is logged and the loop goes on.  After it  *)
(* save_and_reraise_exception raises the exception it saved.               *)
wait_for_server_termination ==
    /\ cts.pc = "terminate"
    /\ \E ok \in BOOLEAN :
        LET c == [cts EXCEPT
                    !.log = Append(@, Call("wait_for_server_termination", cts.i, ok))]
        IN  cts' = IF cts.i < cts.created_servers THEN [c EXCEPT !.i = cts.i + 1]
                   ELSE [c EXCEPT !.pc = "raised"]
    /\ UNCHANGED <<args, shv, websocket_vars>>

(***************************************************************************)
(* shelve_server.  The server has a status, which the compute service      *)
(* changes once the requests are accepted; a status wait returns when the  *)
(* server shows the awaited status, and may raise at any time (time-out,   *)
(* server in ERROR).  CONF.compute.shelved_offload_time is also the        *)
(* service's setting: below 0 the service never offloads by itself.        *)
(***************************************************************************)
OffloadTimes == {0 - 1, 0, 60}

ServerStatuses == {"ACTIVE", "SHUTOFF", "PAUSED"}

(* One call made by shelve_server: a request, or a wait for a status *)
ShelveCall(name, status, ok) == [call |-> name, status |-> status, ok |-> ok]

Shelving(position, server_id, offload_time, force, status) ==
    [pc |-> position, server_id |-> server_id, offload_time |-> offload_time,
     force_shelve_offload |-> force, status |-> status, log |-> <<>>]

NotShelving == Shelving("idle", 1, 0 - 1, FALSE, "ACTIVE")

(* servers_client.shelve_server, then the choice on offload_time *)
shelve_server ==
    /\ shv.pc = "start"
    /\ \E ok \in BOOLEAN :
        shv' = [shv EXCEPT
                  !.log = Append(@, ShelveCall("shelve_server", "", ok)),
                  !.status = IF ok THEN "SHELVING" ELSE @,
                  !.pc = IF ~ok THEN "raised"
                         ELSE IF shv.offload_time >= 0 THEN "wait_offloaded"
                         ELSE "wait_shelved"]
    /\ UNCHANGED <<args, cts, websocket_vars>>

(* The compute service: a shelving server becomes SHELVED, or ERROR when   *)
(* the shelving fails; a shelved one is offloaded when the offload time    *)
(* allows it or an offload was asked.                                      *)
compute_service ==
    /\ shv.pc \notin {"idle", "start"}
    /\ \/ /\ shv.status = "SHELVING"
          /\ \E st \in {"SHELVED", "ERROR"} : shv' = [shv EXCEPT !.status = st]
       \/ /\ shv.status = "SHELVED"
          /\ \/ shv.offload_time >= 0
             \/ \E k \in 1..Len(shv.log) :
                    shv.log[k] = ShelveCall("shelve_offload_server", "", TRUE)
          /\ shv' = [shv EXCEPT !.status = "SHELVED_OFFLOADED"]
    /\ UNCHANGED <<args, cts, websocket_vars>>

(* waiters.wait_for_server_status at position from, for one status: it     *)
(* returns when the server shows the status, and goes on at position to    *)
WaitStatus(from, status, to) ==
    /\ shv.pc = from
    /\ \/ /\ shv.status = status
          /\ shv' = [shv EXCEPT
                      !.log = Append(@, ShelveCall("wait_for_server_status", status, TRUE)),
                      !.pc = to]
       \/ shv' = [shv EXCEPT
                    !.log = Append(@, ShelveCall("wait_for_server_status", status, FALSE)),
                    !.pc = "raised"]
    /\ UNCHANGED <<args, cts, websocket_vars>>

(* if offload_time >= 0: wait for SHELVED_OFFLOADED *)
wait_offloaded == WaitStatus("wait_offloaded", "SHELVED_OFFLOADED", "returned")

(* wait_shelved had it gone on to the offload request whatever the flag *)
wait_shelved_always_offloads == WaitStatus("wait_shelved", "SHELVED", "offload")

(* else: wait for SHELVED, and go on only if force_shelve_offload *)
wait_shelved ==
    WaitStatus("wait_shelved", "SHELVED",
               IF shv.force_shelve_offload THEN "offload" ELSE "returned")

(* servers_client.shelve_offload_server *)
shelve_offload_server ==
    /\ shv.pc = "offload"
    /\ \E ok \in BOOLEAN :
        shv' = [shv EXCEPT
                  !.log = Append(@, ShelveCall("shelve_offload_server", "", ok)),
                  !.pc = IF ok THEN "wait_forced" ELSE "raised"]
    /\ UNCHANGED <<args, cts, websocket_vars>>

(* the wait for SHELVED_OFFLOADED after the offload request *)
wait_forced == WaitStatus("wait_forced", "SHELVED_OFFLOADED", "returned")

(* create_websocket has parsed one of urls, getaddrinfo has returned one   *)
(* of counts addresses, and the peer that accepts will play one of scripts *)
InitConnection(urls, counts, scripts) ==
    /\ url \in urls
    /\ naddrs \in counts
    /\ script \in scripts
    /\ attempts = <<>>
    /\ sockets = <<>>
    /\ _socket = 0
    /\ pc = "connecting"
    /\ cached_stream = <<>>
    /\ response = <<>>
    /\ rd = 0
    /\ need = 0
    /\ pos0 = 0
    /\ sent_upgrade = 0
    /\ ops = <<>>
    /\ ret = NoRet
    /\ other = Idle

(* The connection as above, while neither server utility is called *)
InitWith(urls, counts, scripts) ==
    /\ InitConnection(urls, counts, scripts)
    /\ args = DefaultArgs
    /\ cts = NotCalled
    /\ shv = NotShelving

(* IsSocketError had ssl.SSLError not been an OSError *)
IsSocketError_refused_only(outcome) == outcome = "refused"

(* except socket.error: socket.error is OSError, and ssl.SSLError is a     *)
(* subclass of OSError, so the handler catches both failing outcomes.      *)
IsSocketError(outcome) == outcome \in {"refused", "tls_fail"}

(* The socket calls of one pass through the loop body, lines 409-417 *)
ConnectOps(s, u, outcome) ==
    <<SockOp("socket", s, 0, <<>>)>>
    \o (IF u.scheme = "https" THEN <<SockOp("wrap_socket", s, 0, <<>>)>> ELSE <<>>)
    \o <<SockOp("setsockopt", s, 1, <<>>), SockOp("connect", s, Port(u), <<>>)>>
    \o (IF outcome # "ok" /\ IsSocketError(outcome)
        THEN <<SockOp("close", s, 0, <<>>)>> ELSE <<>>)

(* connect_attempt without the break after a successful connect *)
connect_attempt_no_break ==
    /\ pc = "connecting"
    /\ Len(attempts) < naddrs
    /\ \E outcome \in ConnectOutcomes(url.scheme) :
        LET s == Len(sockets) + 1 IN
        /\ attempts' = Append(attempts, outcome)
        /\ ops' = ConnectOps(s, url, outcome)
        /\ IF outcome = "ok"
           THEN /\ sockets' = Append(sockets, "connected")
                /\ _socket' = s
                /\ pc' = IF s < naddrs THEN "connecting" ELSE "upgrade"
                /\ ret' = NoRet
           ELSE /\ sockets' = Append(sockets, "closed")
                /\ pc' = "connecting"
                /\ UNCHANGED <<_socket, ret>>
    /\ UNCHANGED <<compute_vars, other, url, naddrs, cached_stream, response, script, rd, need, pos0,
                   sent_upgrade>>

(* connect_attempt that goes on to the next address without closing the   *)
(* socket whose connect failed                                             *)
connect_attempt_no_close ==
    /\ pc = "connecting"
    /\ Len(attempts) < naddrs
    /\ \E outcome \in ConnectOutcomes(url.scheme) :
        LET s == Len(sockets) + 1 IN
        /\ attempts' = Append(attempts, outcome)
        /\ ops' = ConnectOps(s, url, "ok")
        /\ IF outcome = "ok"
           THEN /\ sockets' = Append(sockets, "connected")
                /\ _socket' = s
                /\ pc' = "upgrade"
                /\ ret' = NoRet
           ELSE /\ sockets' = Append(sockets, "open")
                /\ pc' = "connecting"
                /\ UNCHANGED <<_socket, ret>>
    /\ UNCHANGED <<compute_vars, other, url, naddrs, cached_stream, response, script, rd, need, pos0,
                   sent_upgrade>>

(* One iteration of the for loop over the resolved addresses *)
connect_attempt ==
    /\ pc = "connecting"
    /\ Len(attempts) < naddrs
    /\ \E outcome \in ConnectOutcomes(url.scheme) :
        LET s == Len(sockets) + 1 IN
        /\ attempts' = Append(attempts, outcome)
        /\ ops' = ConnectOps(s, url, outcome)
        /\ IF outcome = "ok"
           THEN \* break; _WebSocket.__init__ stores the socket
                /\ sockets' = Append(sockets, "connected")
                /\ _socket' = s
                /\ pc' = "upgrade"
                /\ ret' = NoRet
           ELSE IF IsSocketError(outcome)
           THEN \* client_socket.close(); continue
                /\ sockets' = Append(sockets, "closed")
                /\ pc' = "connecting"
                /\ UNCHANGED <<_socket, ret>>
           ELSE \* the exception leaves create_websocket
                /\ sockets' = Append(sockets, "open")
                /\ pc' = "failed"
                /\ ret' = Raised("create_websocket", ConnectError(outcome))
                /\ UNCHANGED _socket
    /\ UNCHANGED <<compute_vars, other, url, naddrs, cached_stream, response, script, rd, need, pos0,
                   sent_upgrade>>

(* connect_exhausted without the raise: the last socket goes to _WebSocket *)
connect_exhausted_no_raise ==
    /\ pc = "connecting"
    /\ Len(attempts) = naddrs
    /\ pc' = "upgrade"
    /\ _socket' = Len(sockets)
    /\ ret' = NoRet
    /\ ops' = <<>>
    /\ UNCHANGED <<compute_vars, other, url, naddrs, attempts, sockets, cached_stream, response,
                   script, rd, need, pos0, sent_upgrade>>

(* The for loop's else clause: every address was tried, none connected *)
connect_exhausted ==
    /\ pc = "connecting"
    /\ Len(attempts) = naddrs
    /\ pc' = "failed"
    /\ ret' = Raised("create_websocket", "WebSocket creation failed")
    /\ ops' = <<>>
    /\ UNCHANGED <<compute_vars, other, url, naddrs, attempts, sockets, _socket, cached_stream,
                   response, script, rd, need, pos0, sent_upgrade>>

----------------------------------------------------------------------------
(* _WebSocket._upgrade *)

(* Lines 543-548: split what was accumulated at end_loc + 4 *)
UpgradeSplit(resp) ==
    LET end_loc == Find(resp) IN
    IF Len(resp) > end_loc + 4
    THEN [response |-> Take(resp, end_loc + 4), cached_stream |-> Drop(resp, end_loc + 4)]
    ELSE [response |-> resp, cached_stream |-> <<>>]

(* UpgradeMore that looks for the delimiter in the last chunk only *)
UpgradeMore_last_chunk(data, resp) == data # <<>> /\ Find(data) < 0

(* UpgradeMore that does not look at what the read returned *)
UpgradeMore_ignores_empty(data, resp) == Find(resp) < 0

(* while data and end_loc < 0 *)
UpgradeMore(data, resp) == data # <<>> /\ Find(resp) < 0

(* After a handshake recv returned data and resp was accumulated: either   *)
(* stay in the loop, or leave it, split, and return from the constructor.  *)
UpgradeStep(data, resp) ==
    IF UpgradeMore(data, resp)
    THEN /\ pc' = "upgrade_loop"
         /\ response' = resp
         /\ UNCHANGED <<cached_stream, ret>>
    ELSE /\ pc' = "ready"
         /\ response' = UpgradeSplit(resp).response
         /\ cached_stream' = UpgradeSplit(resp).cached_stream
         /\ ret' = Returned("create_websocket", <<>>)

(* Lines 507-513: the path of the request line *)
RequestPath(u) ==
    LET qparams_path == ParseQs(u.query, "path")
    IN  IF qparams_path # <<>> THEN qparams_path[1] ELSE "websockify"

(* HostHeader that leaves out the default port of the scheme *)
HostHeader_non_default(u) ==
    "Host: " \o u.hostname
    \o (IF u.port # <<>> /\ u.port[1] # Port([u EXCEPT !.port = <<>>])
        THEN ":" \o ToString(u.port[1]) ELSE "")

(* Lines 518-521: 'Host: %s' % url.hostname, and ':%s' % url.port if the   *)
(* URL has a port (url.port is None or an integer; 0 is false as well)     *)
HostHeader(u) ==
    "Host: " \o u.hostname
    \o (IF u.port # <<>> /\ u.port[1] # 0 THEN ":" \o ToString(u.port[1]) ELSE "")

(* ReqData with the Cookie header ahead of the Upgrade headers *)
ReqData_cookie_first(u) ==
    "GET /" \o RequestPath(u) \o " HTTP/1.1\r\n"
    \o HostHeader(u) \o "\r\n"
    \o "Cookie: " \o RawQuery(u.query) \o "\r\n"
    \o "Upgrade: websocket\r\nConnection: Upgrade\r\n"
    \o "Sec-WebSocket-Key: x3JJHMbDL1EzLkh9GBhXDw==\r\n"
    \o "Sec-WebSocket-Version: 13\r\n"
    \o "Sec-WebSocket-Protocol: binary\r\n\r\n"

(* Lines 517-532: the text of the upgrade request *)
ReqData(u) ==
    "GET /" \o RequestPath(u) \o " HTTP/1.1\r\n"
    \o HostHeader(u) \o "\r\n"
    \o "Upgrade: websocket\r\nConnection: Upgrade\r\n"
    \o "Cookie: " \o RawQuery(u.query) \o "\r\n"
    \o "Sec-WebSocket-Key: x3JJHMbDL1EzLkh9GBhXDw==\r\n"
    \o "Sec-WebSocket-Version: 13\r\n"
    \o "Sec-WebSocket-Protocol: binary\r\n\r\n"

(* Lines 534-537: send the request, first recv *)
upgrade_first ==
    /\ pc = "upgrade"
    /\ \E k \in SockRecvSizes(HandshakeChunk) :
        /\ rd' = rd + k
        /\ ops' = <<SockOp("sendall_upgrade", _socket, 0, ReqData(url)),
                    SockOp("recv", _socket, HandshakeChunk, SockRecvData(k))>>
        /\ UpgradeStep(SockRecvData(k), SockRecvData(k))
    /\ sent_upgrade' = sent_upgrade + 1
    /\ UNCHANGED <<compute_vars, other, url, naddrs, attempts, sockets, _socket, script, need, pos0>>

(* upgrade_loop that sends the request again on every pass *)
upgrade_loop_resends ==
    /\ pc = "upgrade_loop"
    /\ \E k \in SockRecvSizes(HandshakeChunk) :
        /\ rd' = rd + k
        /\ ops' = <<SockOp("sendall_upgrade", _socket, 0, ReqData(url)),
                    SockOp("recv", _socket, HandshakeChunk, SockRecvData(k))>>
        /\ UpgradeStep(SockRecvData(k), response \o SockRecvData(k))
    /\ sent_upgrade' = sent_upgrade + 1
    /\ UNCHANGED <<compute_vars, other, url, naddrs, attempts, sockets, _socket, script, need, pos0>>

(* Lines 539-541: one more pass through the accumulation loop *)
upgrade_loop ==
    /\ pc = "upgrade_loop"
    /\ \E k \in SockRecvSizes(HandshakeChunk) :
        /\ rd' = rd + k
        /\ ops' = <<SockOp("recv", _socket, HandshakeChunk, SockRecvData(k))>>
        /\ UpgradeStep(SockRecvData(k), response \o SockRecvData(k))
    /\ UNCHANGED <<compute_vars, other, url, naddrs, attempts, sockets, _socket, script, need, pos0,
                   sent_upgrade>>

----------------------------------------------------------------------------
(* _WebSocket._recv *)

(* What _recv(recv_size) still asks of the socket once the read-ahead      *)
(* buffer has given what it holds.                                         *)
RecvRemaining(recv_size) == recv_size - Min(Len(cached_stream), recv_size)

(* The sizes the socket may return to this _recv; 0 when it is not read *)
RecvChoices(recv_size) ==
    IF recv_size <= 0 \/ RecvRemaining(recv_size) = 0 \/ _socket = 0
    THEN {0}
    ELSE SockRecvSizes(RecvRemaining(recv_size))

(* _recv that copies from the read-ahead buffer without cutting it *)
_recv_keeps_cached(recv_size, k) ==
    LET read_from_cached == Min(Len(cached_stream), recv_size)
        data_from_cached == Take(cached_stream, read_from_cached)
        size == recv_size - read_from_cached
    IN  IF size > 0 /\ _socket # 0
        THEN [kind |-> "value", data |-> data_from_cached \o SockRecvData(k),
              cached_stream |-> cached_stream, nsock |-> k,
              ops |-> <<SockOp("recv", _socket, size, SockRecvData(k))>>]
        ELSE [kind |-> IF size > 0 THEN "raise" ELSE "value",
              data |-> data_from_cached, cached_stream |-> cached_stream,
              nsock |-> 0, ops |-> <<>>]

(* _recv(recv_size) when the socket, if read, returns k bytes.  kind is    *)
(* "None" (recv_size <= 0), "raise" (self._socket is None when the socket  *)
(* is needed: AttributeError) or "value".  The buffer is cut before the    *)
(* socket is touched, so it is cut also when the call raises.              *)
_recv(recv_size, k) ==
    IF recv_size <= 0
    THEN [kind |-> "None", data |-> <<>>, cached_stream |-> cached_stream,
          nsock |-> 0, ops |-> <<>>]
    ELSE
        LET read_from_cached ==
                IF Len(cached_stream) > 0 THEN Min(Len(cached_stream), recv_size) ELSE 0
            data_from_cached == Take(cached_stream, read_from_cached)
            rest == Drop(cached_stream, read_from_cached)
            size == recv_size - read_from_cached
        IN  IF size > 0
            THEN IF _socket = 0
                 THEN [kind |-> "raise", data |-> <<>>, cached_stream |-> rest,
                       nsock |-> 0, ops |-> <<>>]
                 ELSE [kind |-> "value", data |-> data_from_cached \o SockRecvData(k),
                       cached_stream |-> rest, nsock |-> k,
                       ops |-> <<SockOp("recv", _socket, size, SockRecvData(k))>>]
            ELSE [kind |-> "value", data |-> data_from_cached, cached_stream |-> rest,
                  nsock |-> 0, ops |-> <<>>]

----------------------------------------------------------------------------
(* _WebSocket.receive_frame *)

(* PayloadLength that keeps the mask bit *)
PayloadLength_whole_byte(header) == header[2]

(* int(header[1]) & 127 *)
PayloadLength(header) == BitAnd(header[2], LengthMask)

(* HeaderStep testing len(header) < 2 where the code tests not header *)
HeaderStep_short_is_none(r) ==
    IF r.kind = "raise"
    THEN /\ pc' = "ready"
         /\ need' = 0
         /\ ret' = Raised("receive_frame", "AttributeError")
    ELSE IF Len(r.data) < HeaderSize
    THEN /\ pc' = "ready"
         /\ need' = 0
         /\ ret' = ReturnedNone("receive_frame")
    ELSE IF PayloadLength(r.data) > 0
    THEN /\ pc' = "recv_payload"
         /\ need' = PayloadLength(r.data)
         /\ ret' = NoRet
    ELSE /\ pc' = "recv_header"
         /\ need' = 0
         /\ ret' = NoRet

(* Lines 457-466 on the header r that _recv(2) gave *)
HeaderStep(r) ==
    IF r.kind = "raise"
    THEN /\ pc' = "ready"
         /\ need' = 0
         /\ ret' = Raised("receive_frame", "AttributeError")
    ELSE IF r.data = <<>>
    THEN \* if not header: return None
         /\ pc' = "ready"
         /\ need' = 0
         /\ ret' = ReturnedNone("receive_frame")
    ELSE IF Len(r.data) < HeaderSize
    THEN \* header[1] on a one-byte header
         /\ pc' = "ready"
         /\ need' = 0
         /\ ret' = Raised("receive_frame", "IndexError")
    ELSE IF PayloadLength(r.data) > 0
    THEN /\ pc' = "recv_payload"
         /\ need' = PayloadLength(r.data)
         /\ ret' = NoRet
    ELSE \* an empty frame: next pass of the while loop
         /\ pc' = "recv_header"
         /\ need' = 0
         /\ ret' = NoRet

(* header = self._recv(2), for a call that starts or one that is looping *)
receive_frame_header ==
    /\ pc \in {"ready", "recv_header"}
    /\ \E k \in RecvChoices(HeaderSize) :
        LET r == _recv(HeaderSize, k) IN
        /\ cached_stream' = r.cached_stream
        /\ rd' = rd + r.nsock
        /\ ops' = r.ops
        /\ HeaderStep(r)
    /\ pos0' = IF pc = "ready" THEN Consumed ELSE pos0
    /\ UNCHANGED <<compute_vars, other, url, naddrs, attempts, sockets, _socket, response, script,
                   sent_upgrade>>

(* return self._recv(int(header[1]) & 127) *)
receive_frame_payload ==
    /\ pc = "recv_payload"
    /\ \E k \in RecvChoices(need) :
        LET r == _recv(need, k) IN
        /\ cached_stream' = r.cached_stream
        /\ rd' = rd + r.nsock
        /\ ops' = r.ops
        /\ ret' = CASE r.kind = "raise" -> Raised("receive_frame", "AttributeError")
                    [] r.kind = "None" -> ReturnedNone("receive_frame")
                    [] OTHER -> Returned("receive_frame", r.data)
    /\ pc' = "ready"
    /\ need' = 0
    /\ UNCHANGED <<compute_vars, other, url, naddrs, attempts, sockets, _socket, response, script, pos0,
                   sent_upgrade>>

(* receive_frame called by the second thread while the first may be       *)
(* inside a call of its own: the same lines 457-466 on the same            *)
(* cached_stream and socket, with header, length and return value local to *)
(* the thread.  Each _recv is taken as one step; the threads can switch    *)
(* inside _recv as well, which only adds interleavings.  hdr is the stream *)
(* offset at which the thread's header read began.                         *)
OtherHeader(r) ==
    IF r.kind = "raise"
    THEN [pc |-> "idle", need |-> 0, hdr |-> Consumed,
          ret |-> Raised("receive_frame", "AttributeError")]
    ELSE IF r.data = <<>>
    THEN [pc |-> "idle", need |-> 0, hdr |-> Consumed,
          ret |-> ReturnedNone("receive_frame")]
    ELSE IF Len(r.data) < HeaderSize
    THEN [pc |-> "idle", need |-> 0, hdr |-> Consumed,
          ret |-> Raised("receive_frame", "IndexError")]
    ELSE IF PayloadLength(r.data) > 0
    THEN [pc |-> "recv_payload", need |-> PayloadLength(r.data), hdr |-> Consumed,
          ret |-> NoRet]
    ELSE [pc |-> "recv_header", need |-> 0, hdr |-> Consumed, ret |-> NoRet]

other_receive_frame_header ==
    /\ pc \in {"ready", "recv_header", "recv_payload"}
    /\ other.pc \in {"idle", "recv_header"}
    /\ \E k \in RecvChoices(HeaderSize) :
        LET r == _recv(HeaderSize, k) IN
        /\ cached_stream' = r.cached_stream
        /\ rd' = rd + r.nsock
        /\ ops' = r.ops
        /\ other' = OtherHeader(r)
    /\ UNCHANGED <<compute_vars, url, naddrs, attempts, sockets, _socket, pc, response, script,
                   need, pos0, sent_upgrade, ret>>

other_receive_frame_payload ==
    /\ pc \in {"ready", "recv_header", "recv_payload"}
    /\ other.pc = "recv_payload"
    /\ \E k \in RecvChoices(other.need) :
        LET r == _recv(other.need, k) IN
        /\ cached_stream' = r.cached_stream
        /\ rd' = rd + r.nsock
        /\ ops' = r.ops
        /\ other' = [pc |-> "idle", need |-> 0, hdr |-> other.hdr,
                      ret |-> CASE r.kind = "raise" ->
                                     Raised("receive_frame", "AttributeError")
                                [] r.kind = "None" -> ReturnedNone("receive_frame")
                                [] OTHER -> Returned("receive_frame", r.data)]
    /\ UNCHANGED <<compute_vars, url, naddrs, attempts, sockets, _socket, pc, response, script,
                   need, pos0, sent_upgrade, ret>>

----------------------------------------------------------------------------
(* _WebSocket.send_frame *)

mask == <<7, 2, 1, 9>>

(* FrameBytes with the mask index one off: mask[(i + 1) % 4] *)
FrameBytes_mask_shifted(data) ==
    <<BinaryFinal, BitOr(Len(data), MaskBit)>>
    \o mask
    \o [i \in 1..Len(data) |-> BitXor(data[i], mask[(i % 4) + 1])]

(* Lines 470-483: the integer list frame_bytes *)
FrameBytes(data) ==
    <<BinaryFinal, BitOr(Len(data), MaskBit)>>
    \o mask
    \o [i \in 1..Len(data) |-> BitXor(data[i], mask[((i - 1) % 4) + 1])]

(* struct.pack('!%iB') takes integers in 0..255 only *)
Packable(frame_bytes) == \A i \in 1..Len(frame_bytes) : frame_bytes[i] \in 0..255

(* send_frame writing to the socket without looking at self._socket *)
send_frame_any_handle(data) ==
    /\ pc = "ready"
    /\ ops' = <<SockOp("sendall", _socket, 0, FrameBytes(data))>>
    /\ ret' = WithArg(ReturnedNone("send_frame"), data)
    /\ UNCHANGED <<compute_vars, other, url, naddrs, attempts, sockets, _socket, pc, cached_stream,
                   response, script, rd, need, pos0, sent_upgrade>>

send_frame(data) ==
    /\ pc = "ready"
    /\ IF ~Packable(FrameBytes(data))
       THEN /\ ops' = <<>>
            /\ ret' = WithArg(Raised("send_frame", "struct.error"), data)
       ELSE IF _socket = 0
       THEN /\ ops' = <<>>
            /\ ret' = WithArg(Raised("send_frame", "AttributeError"), data)
       ELSE /\ ops' = <<SockOp("sendall", _socket, 0, FrameBytes(data))>>
            /\ ret' = WithArg(ReturnedNone("send_frame"), data)
    /\ UNCHANGED <<compute_vars, other, url, naddrs, attempts, sockets, _socket, pc, cached_stream,
                   response, script, rd, need, pos0, sent_upgrade>>

----------------------------------------------------------------------------
(* _WebSocket.close *)

(* close without the final self._socket = None *)
close_keeps_handle ==
    /\ pc = "ready"
    /\ IF _socket # 0
       THEN /\ ops' = <<SockOp("shutdown", _socket, ShutWr, <<>>),
                        SockOp("close", _socket, 0, <<>>)>>
            /\ sockets' = [sockets EXCEPT ![_socket] = "closed"]
       ELSE /\ ops' = <<>>
            /\ UNCHANGED sockets
    /\ ret' = ReturnedNone("close")
    /\ UNCHANGED <<compute_vars, other, url, naddrs, attempts, _socket, pc, cached_stream, response,
                   script, rd, need, pos0, sent_upgrade>>

close ==
    /\ pc = "ready"
    /\ IF _socket # 0
       THEN /\ ops' = <<SockOp("shutdown", _socket, ShutWr, <<>>),
                        SockOp("close", _socket, 0, <<>>)>>
            /\ sockets' = [sockets EXCEPT ![_socket] = "closed"]
            /\ _socket' = 0
       ELSE /\ ops' = <<>>
            /\ UNCHANGED <<sockets, _socket>>
    /\ ret' = ReturnedNone("close")
    /\ UNCHANGED <<compute_vars, other, url, naddrs, attempts, pc, cached_stream, response, script,
                   rd, need, pos0, sent_upgrade>>

(* close() on an open connection whose socket.shutdown(1) raises OSError,  *)
(* as it does on a socket the peer has reset: the exception leaves close() *)
(* at line 492, before socket.close() and before the handle is dropped.    *)
close_shutdown_raises ==
    /\ pc = "ready"
    /\ _socket # 0
    /\ ops' = <<SockOp("shutdown", _socket, ShutWr, <<>>)>>
    /\ ret' = Raised("close", "OSError")
    /\ UNCHANGED <<compute_vars, other, url, naddrs, attempts, sockets, _socket, pc, cached_stream,
                   response, script, rd, need, pos0, sent_upgrade>>

----------------------------------------------------------------------------

NextWith(payloads) ==
    \/ connect_attempt
    \/ connect_exhausted
    \/ upgrade_first
    \/ upgrade_loop
    \/ receive_frame_header
    \/ receive_frame_payload
    \/ \E data \in payloads : send_frame(data)
    \/ close

(* The whole life of a connection, over the http and https schemes and     *)
(* every address count                                                     *)
Init == InitWith(Urls, 0..MaxAddrs, SmallScripts)
Next == NextWith(SmallPayloads)
Spec == Init /\ [][Next]_vars

(* One plain address, every peer stream up to MaxStream bytes *)
InitFrames == InitWith(PlainUrls, {1}, Scripts)
SpecFrames == InitFrames /\ [][Next]_vars

(* One address, every URL of AllUrls, a peer that answers the handshake    *)
InitUrl == InitWith(AllUrls, {1}, {Delim \o <<BinaryFinal, 1, 5>>})
SpecUrl == InitUrl /\ [][Next]_vars

(* One plain address, every handshake script.  In SpecHandshakeLive the   *)
(* thread inside the constructor keeps running: its blocking recv returns  *)
(* once the peer has sent something or closed, and every script ends with  *)
(* the peer's close.                                                       *)
InitHandshake == InitWith(PlainUrls, {1}, HandshakeScripts)
SpecHandshake == InitHandshake /\ [][Next]_vars
SpecHandshakeLive ==
    InitHandshake /\ [][Next]_vars /\ WF_vars(upgrade_first) /\ WF_vars(upgrade_loop)

(* One plain address, every stream of up to MaxLenStream length bytes *)
InitLength == InitWith(PlainUrls, {1}, LengthScripts)
SpecLength == InitLength /\ [][Next]_vars

(* One plain address, a peer that answers the handshake and sends any      *)
(* stream up to MaxStream bytes, and two threads on the connection         *)
InitConcurrent == InitWith(PlainUrls, {1}, {Delim \o f : f \in SeqsUpTo(StreamBytes, MaxStream)})
NextConcurrent ==
    \/ Next
    \/ other_receive_frame_header
    \/ other_receive_frame_payload
SpecConcurrent == InitConcurrent /\ [][NextConcurrent]_vars

(* The whole life of a connection when shutdown may raise in close() *)
NextClose ==
    \/ Next
    \/ close_shutdown_raises
SpecClose == Init /\ [][NextClose]_vars

(* One plain address, every payload up to MaxData bytes *)
InitSend == InitWith(PlainUrls, {1}, SmallScripts)
NextSend == NextWith(Payloads)
SpecSend == InitSend /\ [][NextSend]_vars

(* The server utilities are called while no connection is used *)
NoConnection == InitConnection({CHOOSE u \in PlainUrls : TRUE}, {1}, {<<>>})

(* One call of create_test_server, with every combination of arguments *)
InitServer ==
    /\ NoConnection
    /\ args \in AllArgs
    /\ cts = Called("start", args.wait_until)
    /\ shv = NotShelving
NextServer ==
    \/ create_server
    \/ list_servers
    \/ wait_for_server_status
    \/ _setup_validation_fip
    \/ wait_for_ssh_or_ping(FALSE)
    \/ delete_server
    \/ wait_for_server_termination
SpecServer == InitServer /\ [][NextServer]_vars

(* One call of shelve_server on a server that can be shelved *)
InitShelve ==
    /\ NoConnection
    /\ args = DefaultArgs
    /\ cts = NotCalled
    /\ shv \in {Shelving("start", id, t, f, st) :
                    id \in 1..MaxServers, t \in OffloadTimes, f \in BOOLEAN,
                    st \in ServerStatuses}
NextShelve ==
    \/ shelve_server
    \/ compute_service
    \/ wait_offloaded
    \/ wait_shelved
    \/ shelve_offload_server
    \/ wait_forced
SpecShelve == InitShelve /\ [][NextShelve]_vars

----------------------------------------------------------------------------
(* Properties of create_websocket *)

Last(q) == q[Len(q)]
Connected == Len(attempts) > 0 /\ Last(attempts) = "ok"
AllFailed == Len(attempts) = naddrs /\ \A i \in 1..Len(attempts) : attempts[i] # "ok"
HasObject == pc \in {"ready", "recv_header", "recv_payload"}

(* C7 (connect fallback): the k-th connect is on the k-th resolved address, *)
(* nothing is attempted after the first connect that succeeds, and once a   *)
(* connect has succeeded create_websocket does not raise and the connection *)
(* it returns holds the socket of that address (until close() drops it); it *)
(* raises 'WebSocket creation failed' only after trying every address.      *)
C7_ConnectFallback ==
    /\ Len(sockets) = Len(attempts)
    /\ Len(attempts) <= naddrs
    /\ \A i \in 1..Len(attempts) : attempts[i] = "ok" => i = Len(attempts)
    /\ pc = "connecting" => ~Connected
    /\ Connected =>
        /\ pc \notin {"connecting", "failed"}
        /\ ret.op = "create_websocket" => ret.kind = "value"
        /\ \/ _socket = Len(attempts) /\ sockets[_socket] = "connected"
           \/ _socket = 0 /\ sockets[Len(attempts)] = "closed" /\ HasObject
    /\ pc = "failed" => Len(attempts) = naddrs /\ ~Connected

(* The first address refused, the second accepted, the connection on the   *)
(* second address was returned                                             *)
C7_Witness ==
    /\ attempts = <<"refused", "ok">>
    /\ pc = "ready"
    /\ _socket = 2
    /\ ret = Returned("create_websocket", <<>>)

(* C8 (connect failure): when every resolved address has failed, or there  *)
(* was none, create_websocket has raised 'WebSocket creation failed': no   *)
(* socket is connected, no upgrade request was sent, nothing was read and  *)
(* no connection object exists; and while the loop runs nothing is sent.   *)
C8_ConnectFailure ==
    /\ (pc # "connecting" /\ AllFailed) =>
        /\ pc = "failed"
        /\ ret = Raised("create_websocket", "WebSocket creation failed")
        /\ _socket = 0
        /\ sent_upgrade = 0
        /\ rd = 0
        /\ \A i \in 1..Len(sockets) : sockets[i] = "closed"
    /\ pc = "connecting" => sent_upgrade = 0 /\ _socket = 0

(* Both of two addresses failed and the error was raised *)
C8_Witness ==
    /\ naddrs = 2
    /\ Len(attempts) = 2
    /\ pc = "failed"
    /\ ret.exc = "WebSocket creation failed"

(* C9 as claimed (TLS handshake failure is fatal): an address whose TLS    *)
(* handshake failed is the last one tried, and create_websocket has failed *)
(* with the TLS error itself.                                              *)
C9_TlsFailureFatal ==
    \A i \in 1..Len(attempts) :
        attempts[i] = "tls_fail" =>
            /\ i = Len(attempts)
            /\ pc = "failed"
            /\ ret = Raised("create_websocket", "ssl.SSLError")

(* C9 as amended: a TLS handshake failure is handled like a refused        *)
(* connect.  The socket is closed, the TLS error never leaves              *)
(* create_websocket, and create_websocket fails only after every address   *)
(* has been tried, with 'WebSocket creation failed'.                       *)
C9_TlsFailureTriesNext ==
    \A i \in 1..Len(attempts) :
        attempts[i] = "tls_fail" =>
            /\ url.scheme = "https"
            /\ sockets[i] = "closed"
            /\ ret.exc # "ssl.SSLError"
            /\ pc = "failed" =>
                /\ Len(attempts) = naddrs
                /\ ret = Raised("create_websocket", "WebSocket creation failed")

(* The TLS handshake failed on the first address and the connection was    *)
(* made on the second                                                      *)
C9_Witness ==
    /\ attempts = <<"tls_fail", "ok">>
    /\ pc = "ready"
    /\ _socket = 2

----------------------------------------------------------------------------
(* Properties of the order of socket traffic *)

(* Where the connection is in its life: 1 connecting, 2 handshake in       *)
(* flight, 3 upgraded and open, 4 closed, 5 create_websocket failed        *)
PhaseOf(p, sock) ==
    CASE p = "connecting" -> 1
      [] p \in {"upgrade", "upgrade_loop"} -> 2
      [] p = "failed" -> 5
      [] OTHER -> IF sock # 0 THEN 3 ELSE 4
Phase == PhaseOf(pc, _socket)

(* C11 (protocol order): the life of a connection only moves forward       *)
(* through connecting, handshake, frames and closed.  The upgrade request  *)
(* is sent once, as the first call of the handshake, on the socket that    *)
(* connected; no byte is read before it was sent; a connection that        *)
(* create_websocket has returned has had it sent exactly once; send_frame  *)
(* and receive_frame touch the socket only after the handshake loop has    *)
(* ended and before close(), whose shutdown and close are the last calls.  *)
C11_ProtocolOrder ==
    [][/\ PhaseOf(pc', _socket') >= Phase
       /\ sent_upgrade' # sent_upgrade =>
            \E i \in 1..Len(ops') : ops'[i].call = "sendall_upgrade"
       /\ PhaseOf(pc', _socket') \in {3, 4} => sent_upgrade' = 1
       /\ \A i \in 1..Len(ops') :
            LET c == ops'[i].call IN
            /\ c \in {"socket", "wrap_socket", "setsockopt", "connect"} => Phase = 1
            /\ c = "sendall_upgrade" =>
                /\ pc = "upgrade"
                /\ i = 1
                /\ sent_upgrade = 0
                /\ sent_upgrade' = 1
                /\ ops'[i].sock = _socket
                /\ Connected
                /\ sockets[_socket] = "connected"
            /\ c = "recv" => Phase \in {2, 3} /\ sent_upgrade' = 1
            /\ (c = "recv" /\ Phase = 3) => sent_upgrade = 1
            /\ c = "sendall" => Phase = 3 /\ sent_upgrade = 1
            /\ c = "shutdown" => Phase = 3 /\ PhaseOf(pc', _socket') = 4
            /\ c = "close" =>
                \/ Phase = 1 /\ ops'[i].sock # _socket'
                \/ Phase = 3 /\ PhaseOf(pc', _socket') = 4]_vars

(* A connection went through all of it: frame bytes were consumed after    *)
(* the handshake, and close() has shut the socket down                     *)
C11_Witness ==
    /\ Phase = 4
    /\ ret = ReturnedNone("close")
    /\ Len(ops) = 2
    /\ sent_upgrade = 1
    /\ Consumed > 0
    /\ cached_stream = <<>>
    /\ Find(response) >= 0

----------------------------------------------------------------------------
(* Properties of the handshake *)

InHandshake == pc \in {"upgrade", "upgrade_loop"}
HandshakeReturned == pc = "ready" /\ ret.op = "create_websocket"
EndsWithDelim(s) == Len(s) >= 4 /\ SubSeq(s, Len(s) - 3, Len(s)) = <<13, 10, 13, 10>>

(* C12 (handshake delimiter detection): every handshake step reads one     *)
(* chunk of up to 4096 bytes; the handshake goes on to another read        *)
(* exactly when all the bytes received so far hold no '\r\n\r\n', however   *)
(* the reads cut them, and the read brought something, and it then keeps   *)
(* all of them as the accumulated response; once they hold the delimiter   *)
(* the constructor returns normally, whatever bytes precede the delimiter, *)
(* and no handshake read is made again.                                    *)
C12_DelimiterDetection ==
    [][/\ InHandshake =>
            LET got == Take(script, rd') IN
            /\ Len(ops') \in {1, 2}
            /\ ops'[Len(ops')] = SockOp("recv", _socket, 4096, SubSeq(script, rd + 1, rd'))
            /\ pc' \in {"upgrade_loop", "ready"}
            /\ pc' = "upgrade_loop" <=> (Find(got) < 0 /\ rd' > rd)
            /\ pc' = "upgrade_loop" => response' = got
            /\ Find(got) >= 0 => ret' = Returned("create_websocket", <<>>)
       /\ HasObject =>
            /\ HasObject'
            /\ \A i \in 1..Len(ops') : ops'[i].call = "recv" => ops'[i].n < 4096]_vars

(* The handshake ended on a later read that began inside the delimiter,    *)
(* behind a status byte                                                    *)
C12_Witness ==
    /\ HandshakeReturned
    /\ Len(ops) = 1
    /\ Find(response) > 0
    /\ rd - Len(ops[1].data) > Find(response)
    /\ rd - Len(ops[1].data) < Find(response) + 4

(* C13 as claimed (handshake response invariant): when the constructor has *)
(* returned, the retained response ends with '\r\n\r\n' and the read-ahead *)
(* buffer holds exactly the bytes received after the first delimiter,      *)
(* nothing when there are none, whatever the peer did.                     *)
C13_HandshakeResponse ==
    HandshakeReturned =>
        LET got == Take(script, rd) IN
        /\ EndsWithDelim(response)
        /\ cached_stream = IF Find(got) >= 0 THEN Drop(got, Find(got) + 4) ELSE <<>>

(* C14 (handshake read failure): a handshake read that returns nothing,    *)
(* the peer having closed before the delimiter arrived, is the last one:   *)
(* the constructor returns without raising on that step; and a handshake   *)
(* in flight always ends with the constructor returning.                   *)
C14_HandshakeReadFailure ==
    /\ [][(InHandshake /\ rd' = rd) =>
            /\ Find(Take(script, rd)) < 0
            /\ ops'[Len(ops')] = SockOp("recv", _socket, 4096, <<>>)
            /\ pc' = "ready"
            /\ ret' = Returned("create_websocket", <<>>)]_vars
    /\ InHandshake ~> (HandshakeReturned /\ ret.kind = "value")

(* The peer sent bytes without the delimiter and closed; the read that     *)
(* returned nothing ended the handshake and the constructor returned       *)
C14_Witness ==
    /\ HandshakeReturned
    /\ ret.kind = "value"
    /\ ops = <<SockOp("recv", _socket, 4096, <<>>)>>
    /\ rd > 0
    /\ Find(script) < 0

----------------------------------------------------------------------------
(* Properties of the upgrade request and the port *)

(* The request the last step handed to sendall, if it sent one *)
SentRequests == {ops[i].data : i \in {j \in 1..Len(ops) : ops[j].call = "sendall_upgrade"}}
ConnectPorts == {ops[i].n : i \in {j \in 1..Len(ops) : ops[j].call = "connect"}}

(* The path the URL asks for: the decoded value of its first path field    *)
(* that has a value, 'websockify' when it has none                         *)
AskedPath ==
    LET hits == {i \in 1..Len(url.query) :
                    url.query[i].key = "path" /\ url.query[i].val # <<>>}
    IN  IF hits = {} THEN "websockify"
        ELSE Decoded(url.query[CHOOSE i \in hits : \A j \in hits : i <= j].val)

(* The request of C16 around a given Host header line *)
RequestAround(host) ==
    Text(<<"GET /", AskedPath, " HTTP/1.1", "\r\n",
           host, "\r\n",
           "Upgrade: websocket", "\r\n",
           "Connection: Upgrade", "\r\n",
           "Cookie: ", RawQuery(url.query), "\r\n",
           "Sec-WebSocket-Key: x3JJHMbDL1EzLkh9GBhXDw==", "\r\n",
           "Sec-WebSocket-Version: 13", "\r\n",
           "Sec-WebSocket-Protocol: binary", "\r\n",
           "\r\n">>)

HostPlain == "Host: " \o url.hostname
HostWithPort == "Host: " \o url.hostname \o ":" \o ToString(url.port[1])
DefaultPort == IF url.scheme = "https" THEN 443 ELSE 80

(* C16 (handshake framing): the upgrade request handed to sendall is the   *)
(* request line 'GET /<path> HTTP/1.1', the Host header, 'Upgrade:         *)
(* websocket', 'Connection: Upgrade', 'Cookie: <url.query as it stands>',  *)
(* the fixed Sec-WebSocket-Key, Version 13 and Protocol binary, in this    *)
(* order, each ended by CRLF, and then one empty line; <path> is the first *)
(* value parse_qs gives for 'path' (decoded, blank values skipped), or     *)
(* 'websockify' when it gives none.                                        *)
C16_HandshakeFraming ==
    \A req \in SentRequests :
        \/ req = RequestAround(HostPlain)
        \/ url.port # <<>> /\ req = RequestAround(HostWithPort)

(* A request was sent for a URL whose second field is the first path field *)
(* with a value, percent-encoded                                           *)
C16_Witness ==
    /\ url.query = <<Field("token", <<"abc">>),
                     Field("path", <<"%3F", "token", "%3D", "a+b">>)>>
    /\ url.port = <<>>
    /\ SentRequests
         = {Text(<<"GET /?token=a b HTTP/1.1\r\n", "Host: x.com\r\n",
                   "Upgrade: websocket\r\n", "Connection: Upgrade\r\n",
                   "Cookie: token=abc&path=%3Ftoken%3Da+b\r\n",
                   "Sec-WebSocket-Key: x3JJHMbDL1EzLkh9GBhXDw==\r\n",
                   "Sec-WebSocket-Version: 13\r\n",
                   "Sec-WebSocket-Protocol: binary\r\n", "\r\n">>)}

(* C17 as claimed (Host header port suffix): the Host header carries       *)
(* ':<port>' when the URL gives a port other than the default of its       *)
(* scheme, and no suffix when it gives no port or the default port.        *)
C17_HostSuffixNonDefault ==
    \A req \in SentRequests :
        IF url.port # <<>> /\ url.port[1] # DefaultPort
        THEN req = RequestAround(HostWithPort)
        ELSE req = RequestAround(HostPlain)

(* C17 as amended: the Host header carries ':<port>' whenever the URL      *)
(* gives a port, the default port of its scheme included, and no suffix    *)
(* when the URL gives no port.                                             *)
C17_HostSuffixWhenGiven ==
    \A req \in SentRequests :
        IF url.port # <<>>
        THEN req = RequestAround(HostWithPort)
        ELSE req = RequestAround(HostPlain)

(* The request for an https URL that names port 443 was sent with the      *)
(* suffix                                                                  *)
C17_Witness ==
    /\ url.scheme = "https"
    /\ url.port = <<443>>
    /\ SentRequests = {RequestAround("Host: x.com:443")}

----------------------------------------------------------------------------
(* Properties of send_frame and close *)

Bit(n, j) == (n \div (2 ^ j)) % 2

(* C5 (masking round trip and frame layout): send_frame(P) on an open      *)
(* connection makes exactly one socket call, a sendall of the bytes        *)
(* 130, 128 + len(P), 7, 2, 1, 9 and then len(P) bytes of which byte i is, *)
(* bit for bit, P[i] XOR key[i mod 4]; XOR with the key gives P back, the  *)
(* low 7 bits of the second byte are len(P) and its high bit is set.       *)
C5_MaskingRoundTrip ==
    (ret.op = "send_frame" /\ _socket # 0) =>
        LET P == ret.arg
            key == <<7, 2, 1, 9>>
        IN  /\ ret.kind = "None"
            /\ Len(ops) = 1
            /\ ops[1].call = "sendall"
            /\ ops[1].sock = _socket
            /\ LET f == ops[1].data IN
                /\ Len(f) = 6 + Len(P)
                /\ SubSeq(f, 1, 6) = <<130, 128 + Len(P)>> \o key
                /\ f[2] % 128 = Len(P)
                /\ f[2] \div 128 = 1
                /\ \A i \in 1..Len(P) :
                    /\ f[6 + i] \in 0..255
                    /\ \A j \in 0..7 :
                        Bit(f[6 + i], j)
                            = (Bit(P[i], j) + Bit(key[((i - 1) % 4) + 1], j)) % 2
                /\ [i \in 1..Len(P) |-> BitXor(f[6 + i], key[((i - 1) % 4) + 1])] = P

(* A payload long enough for the key to start over was sent *)
C5_Witness ==
    /\ ret.op = "send_frame"
    /\ ret.kind = "None"
    /\ ret.arg = <<85, 255, 85, 255, 255>>
    /\ Len(ops) = 1
    /\ _socket # 0

(* C6 (idempotent close): a close() on an open connection calls            *)
(* shutdown(1) and then close() on its socket, once each, and sets the     *)
(* handle to None; a close() on a closed connection makes no socket call,  *)
(* changes nothing of the connection and returns.                          *)
C6_IdempotentClose ==
    [][ret'.op = "close" =>
        IF _socket # 0
        THEN /\ ops' = <<SockOp("shutdown", _socket, 1, <<>>),
                         SockOp("close", _socket, 0, <<>>)>>
             /\ _socket' = 0
             /\ sockets'[_socket] = "closed"
             /\ ret'.kind = "None"
        ELSE /\ ops' = <<>>
             /\ ret'.kind = "None"
             /\ UNCHANGED <<_socket, sockets, pc, cached_stream, response, rd,
                            need, sent_upgrade>>]_vars

(* A second close() has returned *)
C6_Witness ==
    /\ ret = ReturnedNone("close")
    /\ ops = <<>>
    /\ _socket = 0
    /\ \E i \in 1..Len(sockets) : attempts[i] = "ok" /\ sockets[i] = "closed"

(* C10 (closed is terminal): on a connection whose handle close() has set  *)
(* to None, no call sets the handle again, makes a socket call, reads from *)
(* the peer or changes the state of any socket.                            *)
C10_ClosedIsTerminal ==
    [][(HasObject /\ _socket = 0) =>
        /\ _socket' = 0
        /\ ops' = <<>>
        /\ rd' = rd
        /\ sockets' = sockets
        /\ HasObject']_vars

(* After close(), a receive_frame call was answered from the read-ahead    *)
(* buffer alone: the handle is still None and no socket call was made      *)
C10_Witness ==
    /\ _socket = 0
    /\ HasObject
    /\ ret.op = "receive_frame"
    /\ ret.kind = "value"
    /\ ret.val # <<>>
    /\ ops = <<>>

----------------------------------------------------------------------------
(* Properties of _recv and receive_frame *)

(* The peer's bytes after the retained handshake response, as frames: a    *)
(* frame at offset p is two header bytes and LenAt(s, p) payload bytes.    *)
Stream == Drop(script, Len(response))
LenAt(s, p) == s[p + 2] % 128
Complete(s, p) ==
    /\ Len(s) >= p + 2
    /\ LenAt(s, p) >= 1
    /\ Len(s) >= p + 2 + LenAt(s, p)
PayloadAt(s, p) == SubSeq(s, p + 3, p + 2 + LenAt(s, p))

(* Offset of the first frame at or after p whose length field is not 0 *)
RECURSIVE FirstNonEmpty(_, _)
FirstNonEmpty(s, p) ==
    IF Len(s) < p + 2 THEN p
    ELSE IF LenAt(s, p) = 0 THEN FirstNonEmpty(s, p + 2)
    ELSE p

(* The step is one of receive_frame's reads, and Want is what it asks of   *)
(* _recv                                                                   *)
ReceiveStep ==
    \/ pc \in {"recv_header", "recv_payload"}
    \/ pc = "ready" /\ ret'.op \in {"none", "receive_frame"}
Want == IF pc = "recv_payload" THEN need ELSE 2

(* C1 (read-ahead correctness).  When the handshake ends on a read that    *)
(* brought the delimiter, the bytes read past it are the read-ahead        *)
(* buffer.  From then on the buffer only shrinks, and from its front; a    *)
(* read that fits in it takes exactly its bytes and makes no socket call;  *)
(* the socket is read only when the step leaves the buffer empty, and only *)
(* for what the buffer could not give; and a payload handed out is the     *)
(* next bytes of the peer's stream in arrival order.                       *)
C1_ReadAhead ==
    [][/\ (pc \in {"upgrade", "upgrade_loop"} /\ pc' = "ready"
            /\ Find(Take(script, rd')) >= 0) =>
            LET e == Find(Take(script, rd')) + 4 IN
            /\ response' = Take(script, e)
            /\ cached_stream' = SubSeq(script, e + 1, rd')
       /\ HasObject =>
            /\ Len(cached_stream') <= Len(cached_stream)
            /\ cached_stream'
                 = Drop(cached_stream, Len(cached_stream) - Len(cached_stream'))
            /\ (rd' # rd \/ \E i \in 1..Len(ops') : ops'[i].call = "recv")
                => cached_stream' = <<>>
            /\ (ReceiveStep /\ Len(cached_stream) >= Want) =>
                /\ ops' = <<>>
                /\ rd' = rd
                /\ cached_stream' = Drop(cached_stream, Want)
            /\ (ReceiveStep /\ ops' # <<>>) =>
                /\ Len(ops') = 1
                /\ ops'[1].call = "recv"
                /\ ops'[1].n = Want - Len(cached_stream)
            /\ (pc = "recv_payload" /\ ret'.kind = "value") =>
                ret'.val = SubSeq(Stream, Consumed + 1, Consumed')]_vars

(* The handshake read past the delimiter, and the first receive_frame      *)
(* returned a payload taken from the read-ahead buffer alone               *)
C1_Witness ==
    /\ pc = "ready"
    /\ Find(response) >= 0
    /\ ret.op = "receive_frame"
    /\ ret.kind = "value"
    /\ ret.val # <<>>
    /\ pos0 = 0
    /\ ops = <<>>
    /\ _socket # 0
    /\ rd > Len(response) + Consumed

(* C2 as claimed (zero-length frame skipping): a receive_frame call that   *)
(* starts at a run of frames of length 0 followed by a whole frame of      *)
(* length L >= 1 returns that frame's L payload bytes and has consumed all *)
(* of these frames; and a call returns bytes only for a frame whose length *)
(* field is not 0.                                                         *)
C2_ZeroLengthSkipping ==
    (pc = "ready" /\ ret.op = "receive_frame" /\ _socket # 0) =>
        LET q == FirstNonEmpty(Stream, pos0) IN
        /\ Complete(Stream, q) =>
            /\ ret = Returned("receive_frame", PayloadAt(Stream, q))
            /\ Consumed = q + 2 + LenAt(Stream, q)
        /\ ret.kind = "value" => (Len(Stream) >= q + 2 /\ LenAt(Stream, q) >= 1)

(* C3 (closed-socket receive): a read of receive_frame ends the call with  *)
(* None exactly when it is a header read that finds the read-ahead buffer  *)
(* empty and the peer closed with nothing left to deliver; that read is    *)
(* the call's last socket call and the call returns instead of raising.    *)
C3_ClosedSocketReceive ==
    [][ReceiveStep =>
        /\ (ret'.op = "receive_frame" /\ ret'.kind = "None")
             <=> /\ pc # "recv_payload"
                 /\ cached_stream = <<>>
                 /\ _socket # 0
                 /\ rd = Len(script)
        /\ (ret'.op = "receive_frame" /\ ret'.kind = "None") =>
            /\ ops' = <<SockOp("recv", _socket, 2, <<>>)>>
            /\ pc' = "ready"
            /\ ret'.exc = ""]_vars

(* The peer closed, the buffer was empty and receive_frame returned None *)
C3_Witness ==
    /\ pc = "ready"
    /\ ret = ReturnedNone("receive_frame")
    /\ ops = <<SockOp("recv", _socket, 2, <<>>)>>
    /\ rd = Len(script)

(* C4 as claimed (exact payload): a receive_frame call that starts at a    *)
(* whole frame of length 1 <= L <= 125 returns exactly that frame's L      *)
(* payload bytes and has consumed 2 + L bytes, whatever sizes the socket's *)
(* reads returned.                                                         *)
C4_ExactPayload ==
    (/\ pc = "ready" /\ ret.op = "receive_frame" /\ _socket # 0
     /\ Complete(Stream, pos0) /\ LenAt(Stream, pos0) <= 125) =>
        /\ ret.kind = "value"
        /\ ret.val = PayloadAt(Stream, pos0)
        /\ Consumed = pos0 + 2 + LenAt(Stream, pos0)

(* C15 as claimed (receive termination): a receive_frame call on an open   *)
(* connection ends through one of the two exits of its loop: it returns    *)
(* the bytes read for a frame whose length field is not 0, or it returns   *)
(* None because the header read found the peer closed.                     *)
C15_ReceiveExits ==
    (pc = "ready" /\ ret.op = "receive_frame" /\ _socket # 0) =>
        \/ ret.kind = "value"
        \/ ret.kind = "None" /\ rd = Len(script) /\ cached_stream = <<>>

(* C20 (fixed-size-only length decoding): a header read that got its two   *)
(* bytes goes on according to the low 7 bits of the second byte alone: 0   *)
(* reads the next header, anything else, 126 and 127 included, is the      *)
(* number of bytes asked of the payload read, whatever the first byte and  *)
(* the mask bit are.  The payload read asks the buffer and the socket for  *)
(* that many bytes in all, takes no more than that many, and returns them  *)
(* as they stand in the stream, the bytes right behind the header.         *)
C20_LengthDecoding ==
    [][/\ (ReceiveStep /\ pc # "recv_payload" /\ Consumed' = Consumed + 2) =>
            LET L == Stream[Consumed + 2] % 128 IN
            /\ L = 0 => pc' = "recv_header"
            /\ L > 0 => pc' = "recv_payload" /\ need' = L
       /\ (pc = "recv_payload" /\ _socket # 0) =>
            /\ need = Stream[Consumed] % 128
            /\ \A i \in 1..Len(ops') :
                /\ ops'[i].call = "recv"
                /\ ops'[i].n = need - Len(cached_stream)
            /\ Len(ops') = IF Len(cached_stream) < need THEN 1 ELSE 0
            /\ Consumed' <= Consumed + need
            /\ ret' = Returned("receive_frame", SubSeq(Stream, Consumed + 1, Consumed'))]_vars

(* Behind a header whose second byte is 126 the payload read asked the     *)
(* socket for 126 bytes and returned the two bytes that came, which a full *)
(* decoder would have taken as the 16-bit length                           *)
C20_Witness ==
    /\ pc = "ready"
    /\ Stream = <<129, 126, 128, 1>>
    /\ ret = Returned("receive_frame", <<128, 1>>)
    /\ ops = <<SockOp("recv", _socket, 126, <<128, 1>>)>>

----------------------------------------------------------------------------
(* Properties of two threads on one connection *)

(* q is the offset of a frame header when the stream s is cut into frames  *)
(* from offset p on                                                        *)
RECURSIVE FrameStart(_, _, _)
FrameStart(s, p, q) ==
    IF q = p THEN TRUE
    ELSE IF q < p \/ Len(s) < p + 2 THEN FALSE
    ELSE FrameStart(s, p + 2 + LenAt(s, p), q)

(* The payload bytes the peer sent for the frame at offset p, all of them  *)
(* or, if the peer closed inside the frame, the ones it sent               *)
SentPayloadAt(s, p) == SubSeq(s, p + 3, Min(Len(s), p + 2 + LenAt(s, p)))

(* C19 as claimed, for serialised calls: as long as the second thread has  *)
(* made no call, every receive_frame call of the first that found bytes to *)
(* read began at a frame header of the peer's stream, so no payload byte   *)
(* was decoded as a header, and what it returned is the payload of one     *)
(* frame: that of the first frame, from where the call began, whose length *)
(* field is not 0.                                                         *)
C19_SerialisedSafe ==
    (other = Idle /\ pc = "ready" /\ ret.op = "receive_frame" /\ _socket # 0) =>
        /\ pos0 < Len(Stream) => FrameStart(Stream, 0, pos0)
        /\ ret.kind = "value" =>
            ret.val = SentPayloadAt(Stream, FirstNonEmpty(Stream, pos0))

(* An interleaving of two receive_frame calls: the first thread read the   *)
(* header of a whole frame of length 2, the second thread's header read    *)
(* then took that frame's two payload bytes as its header, and the first   *)
(* thread returned bytes that are not the ones behind its header           *)
C19_Interleaving ==
    /\ pc = "ready"
    /\ ret.op = "receive_frame"
    /\ ret.kind = "value"
    /\ ret.val # <<>>
    /\ FrameStart(Stream, 0, pos0)
    /\ Complete(Stream, pos0)
    /\ LenAt(Stream, pos0) = 2
    /\ other.hdr = pos0 + 2
    /\ other.pc = "recv_payload"
    /\ ret.val # SubSeq(Stream, pos0 + 3, pos0 + 2 + Len(ret.val))
    /\ Find(Take(script, Len(response) + Len(Stream))) >= 0
    /\ Len(response) + Len(cached_stream) + Consumed = Len(script)

----------------------------------------------------------------------------
(* Properties of a closed connection, of errors and of sockets *)

(* C21 as claimed (use after close): once close() has dropped the handle,  *)
(* every step of a send_frame or receive_frame call ends the call with an  *)
(* exception and leaves the handle and the read-ahead buffer as they were. *)
C21_UseAfterCloseFails ==
    [][(HasObject /\ _socket = 0 /\ ret'.op # "close") =>
        /\ pc' = "ready"
        /\ ret'.kind = "raise"
        /\ _socket' = 0
        /\ cached_stream' = cached_stream]_vars

(* C22 as claimed (no exception from the peer's bytes): a receive_frame    *)
(* call on an open connection that has ended has returned a payload or     *)
(* None, whatever the peer sent before closing and however it arrived.     *)
C22_ReceiveNeverRaises ==
    (pc = "ready" /\ ret.op = "receive_frame" /\ _socket # 0) => ret.kind # "raise"

(* C23 as claimed (close always releases): after a call of close(), also   *)
(* one in which shutdown raised, the handle is None and no socket of the   *)
(* connection is left connected.                                           *)
C23_CloseAlwaysReleases ==
    ret.op = "close" =>
        /\ _socket = 0
        /\ \A i \in 1..Len(sockets) : sockets[i] = "closed"

(* C24 (no socket leak while connecting): at most one socket is not        *)
(* closed at any moment, and it is the one that connected; each failed     *)
(* attempt ends with close() on its socket as the last call of the         *)
(* iteration, so every socket is closed while the next address is tried    *)
(* and when 'WebSocket creation failed' is raised.                         *)
C24_NoSocketLeak ==
    /\ Cardinality({i \in 1..Len(sockets) : sockets[i] # "closed"}) <= 1
    /\ \A i \in 1..Len(sockets) :
        /\ sockets[i] # "closed" => attempts[i] = "ok"
        /\ attempts[i] # "ok" => sockets[i] = "closed"
    /\ (pc = "connecting" /\ Len(attempts) > 0) =>
        /\ \A i \in 1..Len(sockets) : sockets[i] = "closed"
        /\ Last(ops) = SockOp("close", Len(sockets), 0, <<>>)
    /\ ret.exc = "WebSocket creation failed" =>
        \A i \in 1..Len(sockets) : sockets[i] = "closed"

(* Two addresses failed, one in the TLS handshake and one refused, both    *)
(* sockets are closed and the error was raised                             *)
C24_Witness ==
    /\ attempts = <<"tls_fail", "refused">>
    /\ sockets = <<"closed", "closed">>
    /\ ret.exc = "WebSocket creation failed"


----------------------------------------------------------------------------
(* Properties of create_test_server *)

WantsValidation == args.wait_until \in {"PINGABLE", "SSHABLE"}

(* The calls of one name in the log, as the set of their positions *)
CallsOf(name) == {k \in 1..Len(cts.log) : cts.log[k].call = name}

(* C25 (PINGABLE/SSHABLE need validation support): once the servers are    *)
(* created and listed, a call with wait_until PINGABLE or SSHABLE that     *)
(* lacks validatable=True or lacks validation_resources has raised         *)
(* RuntimeError, and has gone no further.                                  *)
C25_RuntimeErrorUnlessBoth ==
    (/\ WantsValidation
     /\ ~(args.validatable /\ args.validation_resources)
     /\ cts.created_servers > 0) =>
        /\ cts.pc = "raised"
        /\ cts.exc = "RuntimeError"

(* The RuntimeError is raised when both are missing *)
C25_Witness ==
    /\ WantsValidation
    /\ ~args.validatable
    /\ ~args.validation_resources
    /\ cts.pc = "raised"
    /\ cts.exc = "RuntimeError"

(* Server s had a successful call of the first name and, later, a          *)
(* successful call of the second name                                      *)
PassedInOrder(first, second, s) ==
    \E a \in CallsOf(first), b \in CallsOf(second) :
        /\ a < b
        /\ cts.log[a] = Call(first, s, TRUE)
        /\ cts.log[b] = Call(second, s, TRUE)

TryCalls ==
    {"wait_for_server_status", "_setup_validation_fip", "wait_for_ssh_or_ping",
     "wait_for_ssh", "wait_for_ping"}
FailedInTry ==
    \E k \in 1..Len(cts.log) : cts.log[k].call \in TryCalls /\ ~cts.log[k].ok

(* The created servers for which a call of the name was made *)
ServersOf(name) == {cts.log[k].server : k \in CallsOf(name)}

(* C27 (cleanup order): after a failing status wait, floating-IP setup or  *)
(* SSH/ping wait the function only cleans up and raises; every delete      *)
(* request precedes every termination wait, and the first termination wait *)
(* finds a delete request issued for every created server; whatever the    *)
(* deletes and termination waits did, every created server has had both    *)
(* when the function raises; the exception raised is the one that started  *)
(* the cleanup.                                                            *)
C27_CleanupOrder ==
    /\ [](FailedInTry =>
            /\ cts.pc \in {"delete", "terminate", "raised"}
            /\ \A d \in CallsOf("delete_server"),
                  t \in CallsOf("wait_for_server_termination") : d < t
            /\ CallsOf("wait_for_server_termination") # {} =>
                    ServersOf("delete_server") = 1..cts.created_servers
            /\ cts.pc = "raised" =>
                    /\ ServersOf("delete_server") = 1..cts.created_servers
                    /\ ServersOf("wait_for_server_termination") = 1..cts.created_servers
            /\ cts.exc \notin {"", "delete_server", "wait_for_server_termination"})
    /\ [][cts.pc \in {"delete", "terminate"} =>
            /\ cts'.pc \in {"delete", "terminate", "raised"}
            /\ cts'.exc = cts.exc]_vars

(* The SSH wait of the second of two servers failed, the first delete and  *)
(* the first termination wait failed too, and the SSH failure was raised   *)
C27_Witness ==
    /\ cts.pc = "raised"
    /\ cts.exc = "wait_for_ssh"
    /\ cts.created_servers = 2
    /\ \E d1, d2 \in CallsOf("delete_server"),
          t1, t2 \in CallsOf("wait_for_server_termination") :
        /\ cts.log[d1] = Call("delete_server", 1, FALSE)
        /\ cts.log[d2] = Call("delete_server", 2, TRUE)
        /\ cts.log[t1] = Call("wait_for_server_termination", 1, FALSE)
        /\ cts.log[t2] = Call("wait_for_server_termination", 2, TRUE)

(* C28 (no leaked servers): when the function has raised after a           *)
(* successful create request, a delete request has been issued for every   *)
(* server that request created.                                            *)
C28_NoLeakedServers ==
    (cts.pc = "raised" /\ cts.created > 0) =>
        ServersOf("delete_server") = 1..cts.created

(* A failure inside the try block: both created servers were deleted *)
C28_Witness ==
    /\ cts.pc = "raised"
    /\ cts.created = 2
    /\ cts.exc = "_setup_validation_fip"
    /\ ServersOf("delete_server") = {1, 2}

(* The calls that start the SSH or ping wait of a server, and the          *)
(* floating-IP associations of server s                                    *)
ValidationWaits ==
    CallsOf("wait_for_ssh") \cup CallsOf("wait_for_ping")
        \cup CallsOf("wait_for_ssh_or_ping")
Associations(s) ==
    {f \in CallsOf("_setup_validation_fip") : cts.log[f].server = s}

(* C29 (floating-IP ordering): with wait_until PINGABLE or SSHABLE, every  *)
(* floating-IP association and every SSH/ping wait comes after the ACTIVE  *)
(* wait of every created server has returned; no server's floating IP is   *)
(* associated twice; and with the floating connect method a server's       *)
(* SSH/ping wait starts after the one association for that server (with    *)
(* the fixed method no floating IP is associated at all).                  *)
C29_FloatingIpOrdering ==
    WantsValidation =>
        /\ \A p \in CallsOf("_setup_validation_fip") \cup ValidationWaits :
            \A s \in 1..cts.created_servers :
                \E a \in 1..(p - 1) :
                    cts.log[a] = Call("wait_for_server_status", s, TRUE)
        /\ \A s \in 1..cts.created_servers : Cardinality(Associations(s)) <= 1
        /\ \A w \in ValidationWaits :
            IF args.connect_method = "floating"
            THEN \E f \in Associations(cts.log[w].server) :
                    /\ f < w
                    /\ cts.log[f].ok
            ELSE Associations(cts.log[w].server) = {}

(* Two servers behind floating IPs: both ACTIVE, then for each the         *)
(* association and the SSH wait                                            *)
C29_Witness ==
    /\ args.wait_until = "SSHABLE"
    /\ args.connect_method = "floating"
    /\ cts.pc = "returned"
    /\ cts.log = <<Call("create_server", 0, TRUE), Call("list_servers", 0, TRUE),
                   Call("wait_for_server_status", 1, TRUE),
                   Call("wait_for_server_status", 2, TRUE),
                   Call("_setup_validation_fip", 1, TRUE), Call("wait_for_ssh", 1, TRUE),
                   Call("_setup_validation_fip", 2, TRUE), Call("wait_for_ssh", 2, TRUE)>>

----------------------------------------------------------------------------
(* Properties of shelve_server *)

(* The status wait for st returned at position k of the log *)
Observed(k, st) == shv.log[k] = ShelveCall("wait_for_server_status", st, TRUE)

OffloadRequests ==
    {k \in 1..Len(shv.log) : shv.log[k].call = "shelve_offload_server"}

(* C30 (shelve sequencing): the shelve request is the first call.  With    *)
(* shelved_offload_time >= 0 no offload is requested and the function      *)
(* returns only after SHELVED_OFFLOADED was observed.  Otherwise an        *)
(* offload is requested only with force_shelve_offload and only after      *)
(* SHELVED was observed, and the function returns after SHELVED was        *)
(* observed and, with force_shelve_offload, after the offload request and  *)
(* the observation of SHELVED_OFFLOADED that follows it.  On return the    *)
(* server is SHELVED or SHELVED_OFFLOADED, the latter when forced.         *)
C30_ShelveSequencing ==
    /\ Len(shv.log) > 0 => shv.log[1].call = "shelve_server"
    /\ \A k \in 2..Len(shv.log) : shv.log[k].call # "shelve_server"
    /\ shv.offload_time >= 0 =>
        /\ OffloadRequests = {}
        /\ shv.pc = "returned" =>
            /\ Observed(Len(shv.log), "SHELVED_OFFLOADED")
            /\ shv.status = "SHELVED_OFFLOADED"
    /\ shv.offload_time < 0 =>
        /\ \A k \in OffloadRequests :
            /\ shv.force_shelve_offload
            /\ Observed(k - 1, "SHELVED")
        /\ shv.pc = "returned" =>
            /\ Observed(2, "SHELVED")
            /\ IF shv.force_shelve_offload
               THEN /\ shv.log[3] = ShelveCall("shelve_offload_server", "", TRUE)
                    /\ Observed(4, "SHELVED_OFFLOADED")
                    /\ Len(shv.log) = 4
                    /\ shv.status = "SHELVED_OFFLOADED"
               ELSE /\ Len(shv.log) = 2
                    /\ shv.status = "SHELVED"

(* A forced offload: shelve, SHELVED observed, offload, SHELVED_OFFLOADED  *)
(* observed, return                                                        *)
C30_Witness ==
    /\ shv.pc = "returned"
    /\ shv.offload_time < 0
    /\ shv.force_shelve_offload
    /\ shv.status = "SHELVED_OFFLOADED"
    /\ Len(shv.log) = 4
    /\ Observed(4, "SHELVED_OFFLOADED")

====
